---- MODULE Spec2Model ----
(***************************************************************************)
(* Model of fertilizer_predictor.py: the token-aware soil-data client      *)
(* (SoilDataFetcher) and the threshold classifier (SoilClassifier).        *)
(*                                                                         *)
(* Python None is the string "None" for tokens and the value NoExpiry for  *)
(* token_expiry.  Times are in seconds.  Soil values and thresholds are in *)
(* hundredths of the unit (1.5 g/kg is 150), so that every comparison is   *)
(* an integer comparison.                                                  *)
(***************************************************************************)
EXTENDS Integers, Sequences, FiniteSets, TLC

VARIABLES
    access_token,   \* self.access_token
    token_expiry,   \* self.token_expiry
    now,            \* time.time()
    jsonErrCaught,  \* does response.json() fail with a RequestException?
    pc,             \* position of the caller inside fetch_soil_properties
    gets,           \* the GETs of the current fetch_soil_properties call
    authCalls,      \* authenticate() calls made by the current fetch call
    outcome,        \* how the last fetch_soil_properties call ended
    result,         \* what it returned
    lastAuth,       \* record of the most recent authenticate() call
    cpValue, cpName, cpOut,     \* classify_property: arguments and outcome
    csPayload, csOut            \* classify_soil_data: argument and outcome

clientVars == <<access_token, token_expiry, now, jsonErrCaught, pc, gets,
                authCalls, outcome, result, lastAuth>>
vars == <<access_token, token_expiry, now, jsonErrCaught, pc, gets,
          authCalls, outcome, result, lastAuth,
          cpValue, cpName, cpOut, csPayload, csOut>>

----------------------------------------------------------------------------
(* Bounds of the model *)

\* the clock advances TickStep seconds at a time, at most MaxTicks times
MaxTicks == 3
TickStep == 1100
\* soil values are taken within Eps hundredths of every threshold
Eps == 1

----------------------------------------------------------------------------
(* SoilDataFetcher *)

NoExpiry == -1

Tokens == {"tok1", "tok2"}
Payloads == {"P1", "P2"}

\* Bodies a login response can carry: a JSON object with an access_token,
\* a JSON object without one (token "None"), a JSON value that is not an
\* object, and text that is not JSON.
LoginBodies ==
    [shape : {"dict"}, token : Tokens \cup {"None"}]
        \cup [shape : {"list", "notjson"}, token : {"None"}]

\* Bodies a soil-property response can carry: JSON text of a payload, or
\* text that is not JSON.
GetBodies ==
    [wellformed : {TRUE}, data : Payloads]
        \cup [wellformed : {FALSE}, data : {"None"}]

\* What requests.post / requests.get produce: a response with a final
\* status, or a transport-level exception (ConnectionError, Timeout).
LoginStatuses == {200, 300, 401}
GetStatuses == {200, 300, 401, 500}

LoginResponses ==
    [kind : {"http"}, status : LoginStatuses, body : LoginBodies]
        \cup [kind : {"error"}, status : {0},
              body : [shape : {"notjson"}, token : {"None"}]]

GetResponses ==
    [kind : {"http"}, status : GetStatuses, body : GetBodies]
        \cup [kind : {"error"}, status : {0},
              body : [wellformed : {FALSE}, data : {"None"}]]

\* a raise_for_status that lets client errors (4xx) through
raise_for_status_5xx_only(status) == status >= 500 /\ status < 600

\* Response.raise_for_status(): HTTPError for a 4xx or 5xx status only.
raise_for_status(status) == status >= 400 /\ status < 600

\* token lifetime and refresh margin
TokenLifetime == 3600
RefreshMargin == 300

\* _is_token_valid
is_token_valid(tok, exp, t) ==
    /\ tok # "None"
    /\ exp # NoExpiry
    /\ t < exp - RefreshMargin

\* authenticate(): the login exchange with response l, starting from the
\* session (tok, exp) at time t.  ret is "True", "False" or "raised" (an
\* exception that the except clause does not catch).
authenticate(l, tok, exp, t, caught) ==
    IF l.kind = "error" THEN
        \* requests.post raised a RequestException
        [ret |-> "False", exc |-> "None", tok |-> tok, exp |-> exp]
    ELSE IF raise_for_status(l.status) THEN
        [ret |-> "False", exc |-> "None", tok |-> tok, exp |-> exp]
    ELSE IF l.body.shape = "notjson" THEN
        \* response.json() raised
        IF caught
        THEN [ret |-> "False", exc |-> "None", tok |-> tok, exp |-> exp]
        ELSE [ret |-> "raised", exc |-> "ValueError", tok |-> tok, exp |-> exp]
    ELSE IF l.body.shape = "list" THEN
        \* token_data.get: a list has no attribute get
        [ret |-> "raised", exc |-> "AttributeError", tok |-> tok, exp |-> exp]
    ELSE
        \* token_data.get("access_token") is None when the key is missing
        [ret |-> "True", exc |-> "None",
         tok |-> l.body.token, exp |-> t + TokenLifetime]

\* The tail of fetch_soil_properties once the response to use is known:
\* raise_for_status, response.json(), return.
finish(r, caught) ==
    IF r.kind = "error" THEN
        [outcome |-> "returned", result |-> "None"]
    ELSE IF raise_for_status(r.status) THEN
        [outcome |-> "returned", result |-> "None"]
    ELSE IF ~r.body.wellformed THEN
        IF caught
        THEN [outcome |-> "returned", result |-> "None"]
        ELSE [outcome |-> "raised", result |-> "ValueError"]
    ELSE
        [outcome |-> "returned", result |-> r.body.data]

\* one GET as it is sent: the token in its Authorization header, whether
\* the session was valid when it was sent, and the response it received
GetRecord(r) ==
    [resp |-> r, token |-> access_token,
     valid |-> is_token_valid(access_token, token_expiry, now)]

AuthRecord(l, a) ==
    [called |-> TRUE, resp |-> l, ret |-> a.ret, at |-> now,
     preTok |-> access_token, preExp |-> token_expiry,
     postTok |-> a.tok, postExp |-> a.exp]

NoAuth ==
    [called |-> FALSE,
     resp |-> [kind |-> "error", status |-> 0,
               body |-> [shape |-> "notjson", token |-> "None"]],
     ret |-> "False", at |-> 0,
     preTok |-> "None", preExp |-> NoExpiry,
     postTok |-> "None", postExp |-> NoExpiry]

ClientInit ==
    /\ access_token = "None"
    /\ token_expiry = NoExpiry
    /\ now = 0
    /\ jsonErrCaught \in BOOLEAN
    /\ pc = "idle"
    /\ gets = <<>>
    /\ authCalls = 0
    /\ outcome = "none"
    /\ result = "None"
    /\ lastAuth = NoAuth

\* a caller invokes authenticate() directly
Authenticate(l) ==
    /\ pc = "idle"
    /\ LET a == authenticate(l, access_token, token_expiry, now, jsonErrCaught)
       IN /\ access_token' = a.tok
          /\ token_expiry' = a.exp
          /\ lastAuth' = AuthRecord(l, a)
    /\ UNCHANGED <<now, jsonErrCaught, pc, gets, authCalls, outcome, result>>
    /\ UNCHANGED <<cpValue, cpName, cpOut, csPayload, csOut>>

\* fetch_soil_properties up to and including the first GET, answered by r
FetchFirstGet(r) ==
    /\ pc = "idle"
    /\ gets' = <<GetRecord(r)>>
    /\ authCalls' = 0
    /\ IF r.kind = "http" /\ r.status = 401
       THEN /\ pc' = "reauth"
            /\ outcome' = "none"
            /\ result' = "None"
       ELSE /\ pc' = "done"
            /\ outcome' = finish(r, jsonErrCaught).outcome
            /\ result' = finish(r, jsonErrCaught).result
    /\ UNCHANGED <<access_token, token_expiry, now, jsonErrCaught, lastAuth>>
    /\ UNCHANGED <<cpValue, cpName, cpOut, csPayload, csOut>>

\* the 401 branch: self.authenticate(), answered by l
FetchReauth(l) ==
    /\ pc = "reauth"
    /\ LET a == authenticate(l, access_token, token_expiry, now, jsonErrCaught)
       IN /\ access_token' = a.tok
          /\ token_expiry' = a.exp
          /\ lastAuth' = AuthRecord(l, a)
          /\ authCalls' = authCalls + 1
          /\ IF a.ret = "True"
             THEN /\ pc' = "retry"
                  /\ UNCHANGED <<outcome, result>>
             ELSE IF a.ret = "False"
             THEN /\ pc' = "done"
                  /\ outcome' = "returned"
                  /\ result' = "None"
             ELSE /\ pc' = "done"
                  /\ outcome' = "raised"
                  /\ result' = a.exc
    /\ UNCHANGED <<now, jsonErrCaught, gets>>
    /\ UNCHANGED <<cpValue, cpName, cpOut, csPayload, csOut>>

\* a retry that drops the retried response and reports failure
FetchRetryGet_discard(r) ==
    /\ pc = "retry"
    /\ gets' = Append(gets, GetRecord(r))
    /\ pc' = "done"
    /\ outcome' = "returned"
    /\ result' = "None"
    /\ UNCHANGED <<access_token, token_expiry, now, jsonErrCaught,
                   authCalls, lastAuth>>
    /\ UNCHANGED <<cpValue, cpName, cpOut, csPayload, csOut>>

\* the retried GET, answered by r, and the rest of the function
FetchRetryGet(r) ==
    /\ pc = "retry"
    /\ gets' = Append(gets, GetRecord(r))
    /\ pc' = "done"
    /\ outcome' = finish(r, jsonErrCaught).outcome
    /\ result' = finish(r, jsonErrCaught).result
    /\ UNCHANGED <<access_token, token_expiry, now, jsonErrCaught,
                   authCalls, lastAuth>>
    /\ UNCHANGED <<cpValue, cpName, cpOut, csPayload, csOut>>

\* control is back with the caller; the record of the call is dropped
FetchReturn ==
    /\ pc = "done"
    /\ pc' = "idle"
    /\ gets' = <<>>
    /\ authCalls' = 0
    /\ outcome' = "none"
    /\ result' = "None"
    /\ lastAuth' = NoAuth
    /\ UNCHANGED <<access_token, token_expiry, now, jsonErrCaught>>
    /\ UNCHANGED <<cpValue, cpName, cpOut, csPayload, csOut>>

\* time passes between and during calls
Tick ==
    /\ now + TickStep <= MaxTicks * TickStep
    /\ now' = now + TickStep
    /\ UNCHANGED <<access_token, token_expiry, jsonErrCaught, pc, gets,
                   authCalls, outcome, result, lastAuth>>
    /\ UNCHANGED <<cpValue, cpName, cpOut, csPayload, csOut>>

----------------------------------------------------------------------------
(* SoilClassifier *)

\* THRESHOLDS, in hundredths: nitrogen 1.5 / 5.0, phosphorus 10 / 50,
\* potassium 39 / 195, ph 5.3 / 7.3
THRESHOLDS ==
    [nitrogen   |-> [low |-> 150,  high |-> 500],
     phosphorus |-> [low |-> 1000, high |-> 5000],
     potassium  |-> [low |-> 3900, high |-> 19500],
     ph         |-> [low |-> 530,  high |-> 730]]

\* property_name arguments: the four keys, two spellings that differ from a
\* key in case only, a name that is no key, and None (not a string)
NoneName == "<None>"
PropertyNames ==
    {"nitrogen", "phosphorus", "potassium", "ph",
     "Nitrogen", "PH", "unknown_property", NoneName}

\* str.lower()
lower(name) ==
    CASE name = "Nitrogen" -> "nitrogen"
      [] name = "PH" -> "ph"
      [] OTHER -> name

\* The numbers tried: every threshold and its neighbours.
AllThresholds ==
    UNION {{THRESHOLDS[p].low, THRESHOLDS[p].high} : p \in DOMAIN THRESHOLDS}
NumGrid == UNION {(t - Eps)..(t + Eps) : t \in AllThresholds}

\* value arguments.  "float" is a finite int or float of n hundredths,
\* "numstr" a string that spells such a number, "inf"/"-inf"/"nan" the
\* special floats, "hugeint"/"-hugeint" an int beyond the float range (such
\* as 10**400, which JSON can carry), "badstr" a string that spells no
\* number, "none" None and "list" a list.
Values ==
    [kind : {"float", "numstr"}, n : NumGrid]
        \cup [kind : {"inf", "-inf", "nan", "hugeint", "-hugeint",
                      "badstr", "none", "list"}, n : {0}]

\* float(value): the float, or the exception float() raises
to_float(value) ==
    CASE value.kind \in {"float", "numstr"} ->
            [ok |-> TRUE, exc |-> "None", f |-> [kind |-> "fin", n |-> value.n]]
      [] value.kind \in {"inf", "-inf", "nan"} ->
            [ok |-> TRUE, exc |-> "None", f |-> [kind |-> value.kind, n |-> 0]]
      [] value.kind \in {"hugeint", "-hugeint"} ->
            [ok |-> FALSE, exc |-> "OverflowError", f |-> [kind |-> "nan", n |-> 0]]
      [] value.kind = "badstr" ->
            [ok |-> FALSE, exc |-> "ValueError", f |-> [kind |-> "nan", n |-> 0]]
      [] OTHER ->
            [ok |-> FALSE, exc |-> "TypeError", f |-> [kind |-> "nan", n |-> 0]]

\* f <= t for a float f and a finite threshold t; false for nan
float_le(f, t) ==
    \/ f.kind = "-inf"
    \/ f.kind = "fin" /\ f.n <= t

Returned(v) == [outcome |-> "returned", val |-> v]
Raised(e) == [outcome |-> "raised", val |-> e]

\* classify_property with strict comparisons (a boundary value falls in
\* the upper band)
classify_property_strict(value, property_name) ==
    IF property_name = NoneName THEN Raised("AttributeError")
    ELSE IF lower(property_name) \notin DOMAIN THRESHOLDS THEN Returned("Unknown")
    ELSE LET thresholds == THRESHOLDS[lower(property_name)]
             c == to_float(value)
         IN IF ~c.ok
            THEN IF c.exc \in {"TypeError", "ValueError"}
                 THEN Returned("Unknown")
                 ELSE Raised(c.exc)
            ELSE IF float_le(c.f, thresholds.low - 1) THEN Returned("Low")
            ELSE IF float_le(c.f, thresholds.high - 1) THEN Returned("Moderate")
            ELSE Returned("High")

\* classify_property
classify_property(value, property_name) ==
    IF property_name = NoneName THEN
        \* property_name.lower() on None
        Raised("AttributeError")
    ELSE IF lower(property_name) \notin DOMAIN THRESHOLDS THEN
        Returned("Unknown")
    ELSE LET thresholds == THRESHOLDS[lower(property_name)]
             c == to_float(value)
         IN IF ~c.ok
            THEN IF c.exc \in {"TypeError", "ValueError"}
                 THEN Returned("Unknown")
                 ELSE Raised(c.exc)
            ELSE IF float_le(c.f, thresholds.low) THEN Returned("Low")
            ELSE IF float_le(c.f, thresholds.high) THEN Returned("Moderate")
            ELSE Returned("High")

\* property_mapping with two canonical names exchanged
property_mapping_swapped ==
    << <<"nitrogen_total", "nitrogen">>,
       <<"phosphorous_extractable", "potassium">>,
       <<"potassium_extractable", "phosphorus">>,
       <<"ph", "ph">> >>

\* property_mapping, in its iteration order
property_mapping ==
    << <<"nitrogen_total", "nitrogen">>,
       <<"phosphorous_extractable", "phosphorus">>,
       <<"potassium_extractable", "potassium">>,
       <<"ph", "ph">> >>

ApiFields == {property_mapping[i][1] : i \in 1..Len(property_mapping)}
ClassNames == {property_mapping[i][2] : i \in 1..Len(property_mapping)}

\* Scalars found in payloads: the values of the worked example of the
\* specification (3.0, 60, 20, 5.3) and three that are no float.
PayloadValues ==
    [kind : {"float"}, n : {300, 6000, 2000, 530}]
        \cup [kind : {"badstr", "none", "hugeint"}, n : {0}]

\* What soil_data["property"] holds for one field: nothing ("absent"),
\* null, an empty list, a list whose first record is
\* {"value": {"value": v}} ("ok"), a list whose first record has no
\* "value" key ("novalue"), or a list whose first record is {"value": v}
\* with v a bare number ("flat").
FieldVals ==
    [kind : {"absent", "null", "empty", "novalue", "flat"},
     value : {[kind |-> "none", n |-> 0]}]
        \cup [kind : {"ok"}, value : PayloadValues]

\* soil_data: the "property" entry is missing, null, or a mapping
SoilPayloads ==
    [prop : {"map"}, fields : [ApiFields -> FieldVals]]
        \cup [prop : {"absent", "null"},
              fields : [ApiFields -> {[kind |-> "absent",
                                       value |-> [kind |-> "none", n |-> 0]]}]]

EmptyDict == [k \in {} |-> k]

\* the for loop of classify_soil_data from its i-th mapping on
RECURSIVE classify_loop(_, _, _)
classify_loop(soil_data, i, classified) ==
    IF i > Len(property_mapping) THEN
        [outcome |-> "returned", exc |-> "None", classified |-> classified]
    ELSE
        LET api_field == property_mapping[i][1]
            class_name == property_mapping[i][2]
            property_data == soil_data.fields[api_field]
        IN  IF soil_data.prop = "null" THEN
                \* api_field in None
                [outcome |-> "raised", exc |-> "TypeError",
                 classified |-> classified]
            ELSE IF soil_data.prop = "absent"
                    \/ property_data.kind = "absent" THEN
                classify_loop(soil_data, i + 1, classified)
            ELSE IF property_data.kind \in {"null", "empty"} THEN
                \* property_data and len(property_data) > 0
                classify_loop(soil_data, i + 1, classified)
            ELSE IF property_data.kind = "novalue" THEN
                \* property_data[0]["value"]
                [outcome |-> "raised", exc |-> "KeyError",
                 classified |-> classified]
            ELSE IF property_data.kind = "flat" THEN
                \* a number is not subscriptable
                [outcome |-> "raised", exc |-> "TypeError",
                 classified |-> classified]
            ELSE
                LET value == property_data.value
                    classification == classify_property(value, class_name)
                IN  IF classification.outcome = "raised" THEN
                        [outcome |-> "raised", exc |-> classification.val,
                         classified |-> classified]
                    ELSE
                        classify_loop(soil_data, i + 1,
                            classified @@ (class_name :>
                                [value |-> value,
                                 classification |-> classification.val]))

\* classify_soil_data
classify_soil_data(soil_data) == classify_loop(soil_data, 1, EmptyDict)

ClientIdle ==
    /\ access_token = "None"
    /\ token_expiry = NoExpiry
    /\ now = 0
    /\ jsonErrCaught = TRUE
    /\ pc = "idle"
    /\ gets = <<>>
    /\ authCalls = 0
    /\ outcome = "none"
    /\ result = "None"
    /\ lastAuth = NoAuth

Pending == [outcome |-> "pending", val |-> "None"]
SoilPending == [outcome |-> "pending", exc |-> "None", classified |-> EmptyDict]
NoPayload ==
    [prop |-> "absent",
     fields |-> [a \in ApiFields |->
                    [kind |-> "absent", value |-> [kind |-> "none", n |-> 0]]]]

ClassifierIdle ==
    /\ cpValue = [kind |-> "none", n |-> 0]
    /\ cpName = "ph"
    /\ cpOut = Pending
    /\ csPayload = NoPayload
    /\ csOut = SoilPending

\* a call classify_property(cpValue, cpName)
ClassifyProperty ==
    /\ cpOut = Pending
    /\ cpOut' = classify_property(cpValue, cpName)
    /\ UNCHANGED <<cpValue, cpName, csPayload, csOut>>
    /\ UNCHANGED clientVars

\* a call classify_soil_data(csPayload)
ClassifySoilData ==
    /\ csOut = SoilPending
    /\ csOut' = classify_soil_data(csPayload)
    /\ UNCHANGED <<cpValue, cpName, cpOut, csPayload>>
    /\ UNCHANGED clientVars

InitProp ==
    /\ ClientIdle
    /\ cpValue \in Values
    /\ cpName \in PropertyNames
    /\ cpOut = Pending
    /\ csPayload = NoPayload
    /\ csOut = SoilPending

InitSoil ==
    /\ ClientIdle
    /\ cpValue = [kind |-> "none", n |-> 0]
    /\ cpName = "ph"
    /\ cpOut = Pending
    /\ csPayload \in SoilPayloads
    /\ csOut = SoilPending

SpecProp == InitProp /\ [][ClassifyProperty]_vars
SpecSoil == InitSoil /\ [][ClassifySoilData]_vars

----------------------------------------------------------------------------
Init == ClientInit /\ ClassifierIdle

Next ==
    \/ \E l \in LoginResponses : Authenticate(l)
    \/ \E r \in GetResponses : FetchFirstGet(r)
    \/ \E l \in LoginResponses : FetchReauth(l)
    \/ \E r \in GetResponses : FetchRetryGet(r)
    \/ FetchReturn
    \/ Tick

Spec == Init /\ [][Next]_vars

----------------------------------------------------------------------------
(* Properties *)

Is2xx(status) == status >= 200 /\ status < 300
Is4xx5xx(status) == status >= 400 /\ status < 600

FirstGet == gets[1].resp
LastGet == gets[Len(gets)].resp

\* the counts every fetch_soil_properties call keeps
OneShotCounts ==
    /\ Len(gets) <= 2
    /\ authCalls <= 1
    /\ pc \in {"retry", "done"} =>
          (authCalls = 1 <=> (FirstGet.kind = "http" /\ FirstGet.status = 401))
    /\ pc = "retry" => Len(gets) = 1 /\ lastAuth.ret = "True"
    /\ Len(gets) = 2 => authCalls = 1 /\ lastAuth.ret = "True"
    /\ pc = "done" /\ authCalls = 1 /\ lastAuth.ret = "False" =>
          Len(gets) = 1 /\ outcome = "returned" /\ result = "None"

\* C1 as stated: a first GET answered 401 leads to exactly one
\* authenticate(); if it succeeds the GET is re-issued exactly once and any
\* non-2xx status of the retried GET yields the failure result; if it fails
\* the call returns failure after exactly one GET; so no call makes more
\* than two GETs or more than one authenticate().
C1_AnyNon2xxAfterRetryFails ==
    /\ OneShotCounts
    /\ pc = "done" /\ Len(gets) = 2 /\ LastGet.kind = "http"
          /\ ~Is2xx(LastGet.status) =>
          outcome = "returned" /\ result = "None"

\* C1 as amended: the same, with the failure result promised for every
\* 4xx or 5xx status of the retried GET (a second 401 included) and for a
\* transport error, not for every non-2xx status.
C1_OneShotRefreshAndRetry ==
    /\ OneShotCounts
    /\ pc = "done" /\ Len(gets) = 2
          /\ (LastGet.kind = "error" \/ Is4xx5xx(LastGet.status)) =>
          outcome = "returned" /\ result = "None"

\* a call whose retried GET was answered 401 again has returned None
C1_Witness ==
    /\ pc = "done"
    /\ Len(gets) = 2
    /\ LastGet.kind = "http" /\ LastGet.status = 401
    /\ authCalls = 1
    /\ outcome = "returned" /\ result = "None"

LoginFailure(l) ==
    \/ l.kind = "error"
    \/ ~Is2xx(l.status)
    \/ l.body.shape # "dict"
    \/ l.body.token = "None"

\* C2: an authenticate() whose login exchange fails (non-2xx status,
\* connection error, malformed response such as a body without an
\* access_token) returns False and leaves access_token and token_expiry
\* as they were.
C2_FailedAuthLeavesSession ==
    lastAuth.called /\ LoginFailure(lastAuth.resp) =>
        /\ lastAuth.ret = "False"
        /\ lastAuth.postTok = lastAuth.preTok
        /\ lastAuth.postExp = lastAuth.preExp

\* C3: no soil-property GET is sent while the session is invalid (no token,
\* or the time not earlier than expiry minus 300 s).
C3_NoGetWhileInvalid ==
    \A i \in 1..Len(gets) : gets[i].valid

\* C4: fetch_soil_properties lets no exception escape: it ends by returning
\* the payload or None.  Stated for builds whose response.json() fails with
\* a RequestException.
C4_FetchNeverRaises ==
    pc = "done" /\ jsonErrCaught => outcome = "returned"

\* C5: a call whose first GET is answered 401, whose authenticate()
\* succeeds and whose retried GET is answered 2xx with payload P returns P,
\* which is what a call whose first GET is answered 2xx with payload P
\* returns.
C5_RetryTransparency ==
    pc = "done" /\ LastGet.kind = "http" /\ Is2xx(LastGet.status)
        /\ LastGet.body.wellformed =>
        /\ outcome = "returned"
        /\ result = LastGet.body.data
        /\ Len(gets) = 2 =>
              FirstGet.status = 401 /\ lastAuth.ret = "True"

\* a retried call has returned the payload of its second response
C5_Witness ==
    /\ pc = "done"
    /\ Len(gets) = 2
    /\ FirstGet.status = 401
    /\ lastAuth.ret = "True"
    /\ Is2xx(LastGet.status)
    /\ outcome = "returned" /\ result = "P2"

\* the thresholds as the claim gives them, in hundredths
ClaimBands ==
    [nitrogen   |-> <<150, 500>>,
     phosphorus |-> <<1000, 5000>>,
     potassium  |-> <<3900, 19500>>,
     ph         |-> <<530, 730>>]

\* numeric values of the declared parameter type: floats that are numbers
IsNumber(v) == v.kind \in {"float", "inf", "-inf"}
NumLE(v, t) == v.kind = "-inf" \/ (v.kind = "float" /\ v.n <= t)

\* C6: for each of the four properties and every numeric value v,
\* classify_property returns Low iff v <= low, Moderate iff
\* low < v <= high and High iff v > high; a value at a boundary is in the
\* lower band.
C6_BandsByThreshold ==
    cpOut # Pending /\ cpName \in DOMAIN ClaimBands /\ IsNumber(cpValue) =>
        LET lo == ClaimBands[cpName][1]
            hi == ClaimBands[cpName][2]
        IN  /\ cpOut.outcome = "returned"
            /\ cpOut.val = "Low" <=> NumLE(cpValue, lo)
            /\ cpOut.val = "Moderate" <=>
                  (~NumLE(cpValue, lo) /\ NumLE(cpValue, hi))
            /\ cpOut.val = "High" <=> ~NumLE(cpValue, hi)

\* nitrogen 5.0, on the upper boundary, was classified Moderate
C6_Witness ==
    /\ cpName = "nitrogen"
    /\ cpValue = [kind |-> "float", n |-> 500]
    /\ cpOut = Returned("Moderate")

Bands == {"Low", "Moderate", "High", "Unknown"}

\* C7: classify_property never raises: for every value and every
\* property_name (a string) it returns one of Low, Moderate, High, Unknown,
\* and it returns Unknown when the name, compared without regard to case,
\* is none of the four keys, and when the value is not coercible to a
\* number.
C7_ClassifyPropertyNeverRaises ==
    cpOut # Pending /\ cpName # NoneName =>
        /\ cpOut.outcome = "returned"
        /\ cpOut.val \in Bands
        /\ lower(cpName) \notin DOMAIN ClaimBands => cpOut.val = "Unknown"
        /\ cpValue.kind \in {"badstr", "none", "list"} => cpOut.val = "Unknown"

\* the mapping of raw fields to canonical names as the claim gives it
ClaimMapping ==
    [nitrogen_total          |-> "nitrogen",
     phosphorous_extractable |-> "phosphorus",
     potassium_extractable   |-> "potassium",
     ph                      |-> "ph"]

HasRecords(payload, field) ==
    /\ payload.prop = "map"
    /\ payload.fields[field].kind \notin {"absent", "null", "empty"}

\* C8: in the profile classify_soil_data returns, a canonical key is
\* present iff its raw field is in the payload with a non-empty sequence;
\* its entry holds the first record's scalar and the band
\* classify_property gives that scalar under the canonical name; there
\* are no other keys.
C8_OmissionNotUnknown ==
    csOut.outcome = "returned" =>
        /\ DOMAIN csOut.classified \subseteq
              {ClaimMapping[f] : f \in DOMAIN ClaimMapping}
        /\ \A f \in DOMAIN ClaimMapping :
              /\ ClaimMapping[f] \in DOMAIN csOut.classified
                    <=> HasRecords(csPayload, f)
              /\ HasRecords(csPayload, f) =>
                    LET e == csOut.classified[ClaimMapping[f]]
                        v == csPayload.fields[f].value
                    IN  /\ e.value = v
                        /\ e.classification \in Bands
                        /\ e.classification =
                              classify_property(v, ClaimMapping[f]).val
                        /\ v.kind \in {"badstr", "none"} =>
                              e.classification = "Unknown"

\* a profile with ph left out (absent), potassium left out (empty
\* sequence), nitrogen present but Unknown, and phosphorus 60 High
C8_Witness ==
    /\ csOut.outcome = "returned"
    /\ csPayload.prop = "map"
    /\ csPayload.fields["ph"].kind = "absent"
    /\ csPayload.fields["potassium_extractable"].kind = "empty"
    /\ DOMAIN csOut.classified = {"nitrogen", "phosphorus"}
    /\ csOut.classified["nitrogen"].classification = "Unknown"
    /\ csOut.classified["phosphorus"] =
          [value |-> [kind |-> "float", n |-> 6000], classification |-> "High"]

\* C9: classify_soil_data never fails hard on a malformed payload (mapped
\* fields missing or null, records lacking the nested value field, the
\* property entry absent or not a mapping): it returns a profile.  Stated
\* for payloads whose scalars are all within the float range.
C9_ClassifySoilDataNeverRaises ==
    csOut # SoilPending
        /\ (\A f \in ApiFields : csPayload.fields[f].value.kind # "hugeint") =>
        csOut.outcome = "returned"

\* C10: whenever authenticate() returns True, the session holds a non-null
\* token taken from the login response and token_expiry is the call time
\* plus 3600 s, so the validity predicate is true right after the call.
C10_SuccessfulAuthGivesValidSession ==
    lastAuth.called /\ lastAuth.ret = "True" =>
        /\ lastAuth.postTok # "None"
        /\ lastAuth.postTok = lastAuth.resp.body.token
        /\ lastAuth.postExp = lastAuth.at + 3600
        /\ lastAuth.postTok # "None" /\ lastAuth.at < lastAuth.postExp - 300

====
